---- MODULE Spec2Model ----
(***************************************************************************)
(* A model of the unix_mode crate (src/src/lib.rs): decoding of a 32-bit   *)
(* Unix mode word into file type, permission bits and special bits, and    *)
(* its rendering as the ten characters shown by `ls -l`.                   *)
(*                                                                         *)
(* A u32 is kept as two 16-bit halves [hi, lo] so that bit 31 is           *)
(* representable; shifts and masks are computed on the halves.  A String   *)
(* is a sequence of one-character strings, built by push.                  *)
(***************************************************************************)
EXTENDS Integers, Sequences, FiniteSets

VARIABLES mode, pc, op, by, ty, ret_bool, ret_type, ret_str

vars == <<mode, pc, op, by, ty, ret_bool, ret_type, ret_str>>

(* ------------------------------ bounds --------------------------------- *)

\* With the upper half-word (bits 16-31) zero, the low half-word (type code,
\* special bits, permission bits) is enumerated exhaustively.  The upper
\* half-word, which the library ignores, otherwise ranges over the MaxHigh
\* smallest non-zero values (bit 16 upwards) and the MaxHigh largest ones
\* (0xFFFF downwards, bit 31 set), each with the low half-words of EdgeLows.
MaxHigh == 2

(* --------------------------- u32 arithmetic ---------------------------- *)

Pow2(n) == 2 ^ n

Half == Pow2(16)

RECURSIVE BitAnd16(_, _)
BitAnd16(a, b) ==
    IF a = 0 \/ b = 0 THEN 0
    ELSE (a % 2) * (b % 2) + 2 * BitAnd16(a \div 2, b \div 2)

\* A u32 literal below 2^16.
U32(n) == [hi |-> 0, lo |-> n]

\* x >> n on u32, 0 <= n < 16.
Shr(x, n) ==
    [hi |-> x.hi \div Pow2(n),
     lo |-> (x.lo \div Pow2(n)) + (x.hi % Pow2(n)) * Pow2(16 - n)]

\* x << n on u32 (bits shifted past bit 31 are dropped), 0 <= n < 15.
Shl(x, n) ==
    [hi |-> (x.hi * Pow2(n) + (x.lo * Pow2(n)) \div Half) % Half,
     lo |-> (x.lo * Pow2(n)) % Half]

\* x & y on u32.
And(x, y) == [hi |-> BitAnd16(x.hi, y.hi), lo |-> BitAnd16(x.lo, y.lo)]

(* ------------------------------- types --------------------------------- *)

Type == {"File", "Dir", "Symlink", "Socket", "Fifo", "BlockDevice",
         "CharDevice", "Whiteout", "Unknown"}

Accessor == {"Other", "Group", "User"}

Access == {"Execute", "Write", "Read"}

(* ----------------------------- functions ------------------------------- *)

\* Mutant: the mask is one bit too wide (0o37), so bit 16 leaks into the code.
type_bits_wide_mask(m) == And(Shr(m, 12), U32(\o37))

type_bits(m) == And(Shr(m, 12), U32(\o17))

TypeFrom(m) ==
    LET t == type_bits(m) IN
    IF      t = U32(\o1)  THEN "Fifo"
    ELSE IF t = U32(\o2)  THEN "CharDevice"
    ELSE IF t = U32(\o4)  THEN "Dir"
    ELSE IF t = U32(\o6)  THEN "BlockDevice"
    ELSE IF t = U32(\o10) THEN "File"
    ELSE IF t = U32(\o12) THEN "Symlink"
    ELSE IF t = U32(\o14) THEN "Socket"
    ELSE IF t = U32(\o16) THEN "Whiteout"
    ELSE "Unknown"

\* Mutant: the accessor's group is shifted by `by` bits instead of 3 * by.
is_allowed_shift_by_rank(accessor, access, m) ==
    LET b == IF accessor = "User" THEN 2
             ELSE IF accessor = "Group" THEN 1
             ELSE 0
        bits == And(Shr(m, b), U32(\o7))
        t == IF access = "Read" THEN 2
             ELSE IF access = "Write" THEN 1
             ELSE 0
    IN And(bits, Shl(U32(1), t)) # U32(0)

is_allowed(accessor, access, m) ==
    LET b == IF accessor = "User" THEN 2
             ELSE IF accessor = "Group" THEN 1
             ELSE 0
        bits == And(Shr(m, 3 * b), U32(\o7))
        t == IF access = "Read" THEN 2
             ELSE IF access = "Write" THEN 1
             ELSE 0
    IN And(bits, Shl(U32(1), t)) # U32(0)

is_file(m) == TypeFrom(m) = "File"

is_dir(m) == TypeFrom(m) = "Dir"

\* Mutant: the type bits are tested against 0o120000 without isolating the
\* type field first, so every code containing the symlink bits passes.
is_symlink_unmasked(m) == And(m, U32(\o120000)) = U32(\o120000)

is_symlink(m) == TypeFrom(m) = "Symlink"

is_fifo(m) == TypeFrom(m) = "Fifo"

is_char_device(m) == TypeFrom(m) = "CharDevice"

is_block_device(m) == TypeFrom(m) = "BlockDevice"

is_socket(m) == TypeFrom(m) = "Socket"

is_setuid(m) == And(m, U32(\o4000)) # U32(0)

\* Mutant: an octal digit is dropped from the mask (0o200 is owner write).
is_setgid_wrong_mask(m) == And(m, U32(\o200)) # U32(0)

is_setgid(m) == And(m, U32(\o2000)) # U32(0)

is_sticky(m) == And(m, U32(\o1000)) # U32(0)

\* Mutant: the Whiteout arm is missing, so a whiteout falls to '?'.
type_char_no_whiteout(t) ==
    IF      t = "Fifo"        THEN "p"
    ELSE IF t = "CharDevice"  THEN "c"
    ELSE IF t = "Dir"         THEN "d"
    ELSE IF t = "BlockDevice" THEN "b"
    ELSE IF t = "File"        THEN "-"
    ELSE IF t = "Symlink"     THEN "l"
    ELSE IF t = "Socket"      THEN "s"
    ELSE "?"

\* The first push of to_string: the match on Type::from(mode).
type_char(t) ==
    IF      t = "Fifo"        THEN "p"
    ELSE IF t = "CharDevice"  THEN "c"
    ELSE IF t = "Dir"         THEN "d"
    ELSE IF t = "BlockDevice" THEN "b"
    ELSE IF t = "File"        THEN "-"
    ELSE IF t = "Symlink"     THEN "l"
    ELSE IF t = "Socket"      THEN "s"
    ELSE IF t = "Whiteout"    THEN "w"
    ELSE "?"

\* Mutant: the arms for a denied execute with a special bit are missing, so
\* 'S' and 'T' are rendered as '-'.
perm_char_no_upper(access, accessor, allowed, setuid, setgid, sticky) ==
    IF      access = "Execute" /\ accessor = "User"  /\ allowed  /\ setuid THEN "s"
    ELSE IF access = "Execute" /\ accessor = "Group" /\ allowed  /\ setgid THEN "s"
    ELSE IF access = "Execute" /\ accessor = "Other" /\ allowed  /\ sticky THEN "t"
    ELSE IF access = "Execute" /\ allowed THEN "x"
    ELSE IF access = "Write"   /\ allowed THEN "w"
    ELSE IF access = "Read"    /\ allowed THEN "r"
    ELSE "-"

\* Mutant: the setuid arms have their letters exchanged ('S' for an allowed
\* owner execute, 's' for a denied one).
perm_char_case_swapped(access, accessor, allowed, setuid, setgid, sticky) ==
    IF      access = "Execute" /\ accessor = "User"  /\ allowed  /\ setuid THEN "S"
    ELSE IF access = "Execute" /\ accessor = "User"  /\ ~allowed /\ setuid THEN "s"
    ELSE IF access = "Execute" /\ accessor = "Group" /\ allowed  /\ setgid THEN "s"
    ELSE IF access = "Execute" /\ accessor = "Group" /\ ~allowed /\ setgid THEN "S"
    ELSE IF access = "Execute" /\ accessor = "Other" /\ allowed  /\ sticky THEN "t"
    ELSE IF access = "Execute" /\ accessor = "Other" /\ ~allowed /\ sticky THEN "T"
    ELSE IF access = "Execute" /\ allowed THEN "x"
    ELSE IF access = "Write"   /\ allowed THEN "w"
    ELSE IF access = "Read"    /\ allowed THEN "r"
    ELSE "-"

\* Mutant: the setuid arms match any accessor (User is replaced by _), so
\* setuid also rewrites the Group and Other execute characters.
perm_char_setuid_any(access, accessor, allowed, setuid, setgid, sticky) ==
    IF      access = "Execute" /\ allowed  /\ setuid THEN "s"
    ELSE IF access = "Execute" /\ ~allowed /\ setuid THEN "S"
    ELSE IF access = "Execute" /\ accessor = "Group" /\ allowed  /\ setgid THEN "s"
    ELSE IF access = "Execute" /\ accessor = "Group" /\ ~allowed /\ setgid THEN "S"
    ELSE IF access = "Execute" /\ accessor = "Other" /\ allowed  /\ sticky THEN "t"
    ELSE IF access = "Execute" /\ accessor = "Other" /\ ~allowed /\ sticky THEN "T"
    ELSE IF access = "Execute" /\ allowed THEN "x"
    ELSE IF access = "Write"   /\ allowed THEN "w"
    ELSE IF access = "Read"    /\ allowed THEN "r"
    ELSE "-"

\* Mutant: the arm for an allowed other execute with the sticky bit is
\* missing, so 't' is rendered as 'x' and the sticky bit is not shown.
perm_char_no_t(access, accessor, allowed, setuid, setgid, sticky) ==
    IF      access = "Execute" /\ accessor = "User"  /\ allowed  /\ setuid THEN "s"
    ELSE IF access = "Execute" /\ accessor = "User"  /\ ~allowed /\ setuid THEN "S"
    ELSE IF access = "Execute" /\ accessor = "Group" /\ allowed  /\ setgid THEN "s"
    ELSE IF access = "Execute" /\ accessor = "Group" /\ ~allowed /\ setgid THEN "S"
    ELSE IF access = "Execute" /\ accessor = "Other" /\ ~allowed /\ sticky THEN "T"
    ELSE IF access = "Execute" /\ allowed THEN "x"
    ELSE IF access = "Write"   /\ allowed THEN "w"
    ELSE IF access = "Read"    /\ allowed THEN "r"
    ELSE "-"

\* The match of the inner loop of to_string, arms tried in source order.
perm_char(access, accessor, allowed, setuid, setgid, sticky) ==
    IF      access = "Execute" /\ accessor = "User"  /\ allowed  /\ setuid THEN "s"
    ELSE IF access = "Execute" /\ accessor = "User"  /\ ~allowed /\ setuid THEN "S"
    ELSE IF access = "Execute" /\ accessor = "Group" /\ allowed  /\ setgid THEN "s"
    ELSE IF access = "Execute" /\ accessor = "Group" /\ ~allowed /\ setgid THEN "S"
    ELSE IF access = "Execute" /\ accessor = "Other" /\ allowed  /\ sticky THEN "t"
    ELSE IF access = "Execute" /\ accessor = "Other" /\ ~allowed /\ sticky THEN "T"
    ELSE IF access = "Execute" /\ allowed THEN "x"
    ELSE IF access = "Write"   /\ allowed THEN "w"
    ELSE IF access = "Read"    /\ allowed THEN "r"
    ELSE "-"

\* The arrays the two for loops of to_string iterate over.
AccessorOrder == <<"User", "Group", "Other">>

AccessOrder == <<"Read", "Write", "Execute">>

\* Mutant: the inner loop stops one iteration early.
RECURSIVE push_accesses_short(_, _, _, _, _, _, _)
push_accesses_short(s, accessor, j, m, setuid, setgid, sticky) ==
    IF j >= Len(AccessOrder) THEN s
    ELSE push_accesses_short(
             Append(s, perm_char(AccessOrder[j], accessor,
                                 is_allowed(accessor, AccessOrder[j], m),
                                 setuid, setgid, sticky)),
             accessor, j + 1, m, setuid, setgid, sticky)

\* The inner loop from its j-th iteration on: one push per access.
RECURSIVE push_accesses(_, _, _, _, _, _, _)
push_accesses(s, accessor, j, m, setuid, setgid, sticky) ==
    IF j > Len(AccessOrder) THEN s
    ELSE push_accesses(
             Append(s, perm_char(AccessOrder[j], accessor,
                                 is_allowed(accessor, AccessOrder[j], m),
                                 setuid, setgid, sticky)),
             accessor, j + 1, m, setuid, setgid, sticky)

\* The outer loop from its i-th iteration on.
RECURSIVE push_accessors(_, _, _, _, _, _)
push_accessors(s, i, m, setuid, setgid, sticky) ==
    IF i > Len(AccessorOrder) THEN s
    ELSE push_accessors(
             push_accesses(s, AccessorOrder[i], 1, m, setuid, setgid, sticky),
             i + 1, m, setuid, setgid, sticky)

to_string(m) ==
    LET setuid == is_setuid(m)
        setgid == is_setgid(m)
        sticky == is_sticky(m)
    IN  push_accessors(<<type_char(TypeFrom(m))>>, 1, m, setuid, setgid, sticky)

(* ------------------------------ the caller ----------------------------- *)

HighHalves == (1 .. MaxHigh) \cup ((Half - MaxHigh) .. (Half - 1))

\* Bits 0-11 all clear, all set, exactly one set, or exactly one clear.
EdgeLow12 ==
    {0, 4095} \cup {Pow2(k) : k \in 0 .. 11} \cup {4095 - Pow2(k) : k \in 0 .. 11}

\* Every type code with every pattern of EdgeLow12.
EdgeLows == {c * 4096 + p : c \in 0 .. 15, p \in EdgeLow12}

Modes ==
    [hi : {0}, lo : 0 .. (Half - 1)] \cup [hi : HighHalves, lo : EdgeLows]

NoStr == <<>>

NoType == "None"

Init ==
    /\ mode \in Modes
    /\ pc = "ready"
    /\ op = "none"
    /\ by = "None"
    /\ ty = "None"
    /\ ret_bool = FALSE
    /\ ret_type = NoType
    /\ ret_str = NoStr

ReturnBool(name, b) ==
    /\ pc = "ready"
    /\ pc' = "returned"
    /\ op' = name
    /\ ret_bool' = b
    /\ UNCHANGED <<mode, by, ty, ret_type, ret_str>>

CallTypeFrom ==
    /\ pc = "ready"
    /\ pc' = "returned"
    /\ op' = "Type::from"
    /\ ret_type' = TypeFrom(mode)
    /\ UNCHANGED <<mode, by, ty, ret_bool, ret_str>>

CallIsAllowed ==
    \E accessor \in Accessor, access \in Access :
        /\ pc = "ready"
        /\ pc' = "returned"
        /\ op' = "is_allowed"
        /\ by' = accessor
        /\ ty' = access
        /\ ret_bool' = is_allowed(accessor, access, mode)
        /\ UNCHANGED <<mode, ret_type, ret_str>>

CallIsFile == ReturnBool("is_file", is_file(mode))

CallIsDir == ReturnBool("is_dir", is_dir(mode))

CallIsSymlink == ReturnBool("is_symlink", is_symlink(mode))

CallIsFifo == ReturnBool("is_fifo", is_fifo(mode))

CallIsCharDevice == ReturnBool("is_char_device", is_char_device(mode))

CallIsBlockDevice == ReturnBool("is_block_device", is_block_device(mode))

CallIsSocket == ReturnBool("is_socket", is_socket(mode))

CallIsSetuid == ReturnBool("is_setuid", is_setuid(mode))

CallIsSetgid == ReturnBool("is_setgid", is_setgid(mode))

CallIsSticky == ReturnBool("is_sticky", is_sticky(mode))

CallToString ==
    /\ pc = "ready"
    /\ pc' = "returned"
    /\ op' = "to_string"
    /\ ret_str' = to_string(mode)
    /\ UNCHANGED <<mode, by, ty, ret_bool, ret_type>>

Next ==
    \/ CallTypeFrom
    \/ CallIsAllowed
    \/ CallIsFile
    \/ CallIsDir
    \/ CallIsSymlink
    \/ CallIsFifo
    \/ CallIsCharDevice
    \/ CallIsBlockDevice
    \/ CallIsSocket
    \/ CallIsSetuid
    \/ CallIsSetgid
    \/ CallIsSticky
    \/ CallToString

Spec == Init /\ [][Next]_vars

(* ------------------------ vocabulary of the claims --------------------- *)

\* Bit n (0..31) of a u32, read arithmetically from its half-word.
Bit(m, n) ==
    IF n < 16 THEN (m.lo \div Pow2(n)) % 2 = 1
    ELSE (m.hi \div Pow2(n - 16)) % 2 = 1

\* m with bit n (0..15) set, resp. cleared.
SetBit(m, n) == IF Bit(m, n) THEN m ELSE [m EXCEPT !.lo = @ + Pow2(n)]

ClearBit(m, n) == IF Bit(m, n) THEN [m EXCEPT !.lo = @ - Pow2(n)] ELSE m

\* The 4-bit type code, bits 12-15.
TypeCode(m) == (m.lo \div 4096) % 16

\* Index in the rendered string (1-based) of the character of the i-th
\* accessor and j-th access kind: 0-based position 1 + 3*(i-1) + (j-1).
Slot(i, j) == 1 + 3 * (i - 1) + j

Returned(name) == pc = "returned" /\ op = name

(* -------------------------------- C1 ----------------------------------- *)

\* The character the rendering rules prescribe for one accessor and access.
C1_Glyph(accessor, access, m) ==
    LET ok == is_allowed(accessor, access, m)
        special == \/ accessor = "User"  /\ is_setuid(m)
                   \/ accessor = "Group" /\ is_setgid(m)
                   \/ accessor = "Other" /\ is_sticky(m)
    IN  IF access = "Read" THEN (IF ok THEN "r" ELSE "-")
        ELSE IF access = "Write" THEN (IF ok THEN "w" ELSE "-")
        ELSE IF special /\ accessor = "Other" THEN (IF ok THEN "t" ELSE "T")
        ELSE IF special THEN (IF ok THEN "s" ELSE "S")
        ELSE (IF ok THEN "x" ELSE "-")

\* C1: characters 1-9 of to_string(mode) are, for User, Group, Other in that
\* order and within each for Read, Write, Execute in that order: 'r' / 'w' if
\* allowed else '-', and for Execute 's'/'S' (User with setuid, Group with
\* setgid), 't'/'T' (Other with sticky), lower case when execute is allowed
\* and upper case when it is denied, and otherwise 'x' if allowed else '-'.
C1_PermissionChars ==
    Returned("to_string") =>
        \A i \in 1 .. 3, j \in 1 .. 3 :
            ret_str[Slot(i, j)] =
                C1_Glyph(<<"User", "Group", "Other">>[i],
                         <<"Read", "Write", "Execute">>[j], mode)

\* A setgid mode without group execute, and a sticky mode with other execute.
C1_Witness ==
    /\ Returned("to_string")
    /\ is_setgid(mode) /\ ~is_allowed("Group", "Execute", mode)
    /\ is_sticky(mode) /\ is_allowed("Other", "Execute", mode)
    /\ ret_str[7] = "S" /\ ret_str[10] = "t"

(* -------------------------------- C2 ----------------------------------- *)

C2_Table(code) ==
    CASE code = 1  -> "Fifo"
      [] code = 2  -> "CharDevice"
      [] code = 4  -> "Dir"
      [] code = 6  -> "BlockDevice"
      [] code = 8  -> "File"
      [] code = 10 -> "Symlink"
      [] code = 12 -> "Socket"
      [] code = 14 -> "Whiteout"
      [] code \in {0, 3, 5, 7, 9, 11, 13, 15} -> "Unknown"

\* C2: Type::from(mode) is the entry of the fixed table for the 4-bit code
\* (mode >> 12) & 0xF, the eight remaining codes giving Unknown; the result
\* is one of the nine classifications.
C2_TypeTable ==
    Returned("Type::from") =>
        /\ ret_type = C2_Table(TypeCode(mode))
        /\ ret_type \in Type

\* A whiteout whose upper half-word and permission bits are not zero.
C2_Witness ==
    /\ Returned("Type::from")
    /\ ret_type = "Whiteout"
    /\ mode.hi # 0
    /\ mode.lo % 4096 # 0

(* -------------------------------- C3 ----------------------------------- *)

C3_Glyph(t) ==
    CASE t = "Fifo"        -> "p"
      [] t = "CharDevice"  -> "c"
      [] t = "Dir"         -> "d"
      [] t = "BlockDevice" -> "b"
      [] t = "File"        -> "-"
      [] t = "Symlink"     -> "l"
      [] t = "Socket"      -> "s"
      [] t = "Whiteout"    -> "w"
      [] t = "Unknown"     -> "?"

\* C3: character 0 of to_string(mode) is the glyph of Type::from(mode), and
\* is the character rendered for the same mode with bits 0-11 cleared.
C3_TypeChar ==
    Returned("to_string") =>
        /\ ret_str[1] = C3_Glyph(C2_Table(TypeCode(mode)))
        /\ ret_str[1] = C3_Glyph(TypeFrom(mode))
        /\ ret_str[1] = to_string([mode EXCEPT !.lo = @ - (@ % 4096)])[1]

\* A socket with all permission and special bits set.
C3_Witness ==
    /\ Returned("to_string")
    /\ TypeCode(mode) = 12
    /\ mode.lo % 4096 = 4095
    /\ ret_str[1] = "s"

(* -------------------------------- C4 ----------------------------------- *)

C4_AccessorRank(a) == CASE a = "User" -> 2 [] a = "Group" -> 1 [] a = "Other" -> 0

C4_AccessRank(k) == CASE k = "Read" -> 2 [] k = "Write" -> 1 [] k = "Execute" -> 0

\* C4: is_allowed(accessor, access, mode) is true iff bit 3*a + k of mode is
\* set (a = 2, 1, 0 for User, Group, Other; k = 2, 1, 0 for Read, Write,
\* Execute); being a function of that bit alone, it depends on no other bit.
C4_IsAllowedBit ==
    Returned("is_allowed") =>
        (ret_bool <=> Bit(mode, 3 * C4_AccessorRank(by) + C4_AccessRank(ty)))

\* Group write denied although every other bit of the mode is set.
C4_Witness ==
    /\ Returned("is_allowed")
    /\ by = "Group" /\ ty = "Write"
    /\ mode.lo = 65535 - 16
    /\ mode.hi = 65535
    /\ ~ret_bool

(* -------------------------------- C5 ----------------------------------- *)

\* C5 as stated: each of the nine permission characters of to_string(mode)
\* is '-' if and only if is_allowed(accessor, access, mode) is false, and is
\* otherwise one of r/w/x/s/S/t/T.
C5_DashIffDenied ==
    Returned("to_string") =>
        \A i \in 1 .. 3, j \in 1 .. 3 :
            LET c == ret_str[Slot(i, j)]
                ok == is_allowed(<<"User", "Group", "Other">>[i],
                                 <<"Read", "Write", "Execute">>[j], mode)
            IN  /\ (c = "-") <=> ~ok
                /\ c # "-" => c \in {"r", "w", "x", "s", "S", "t", "T"}

\* C5 (amended): each of the nine permission characters is one of '-', 'S',
\* 'T' if and only if is_allowed is false, and is otherwise one of
\* r/w/x/s/t; a denied access is shown as 'S' or 'T' instead of '-' exactly
\* in the Execute slot of an accessor whose special bit is set.
C5_UpperOrDashIffDenied ==
    Returned("to_string") =>
        \A i \in 1 .. 3, j \in 1 .. 3 :
            LET c == ret_str[Slot(i, j)]
                ok == is_allowed(<<"User", "Group", "Other">>[i],
                                 <<"Read", "Write", "Execute">>[j], mode)
                special == <<is_setuid(mode), is_setgid(mode), is_sticky(mode)>>[i]
            IN  /\ (c \in {"-", "S", "T"}) <=> ~ok
                /\ ok => c \in {"r", "w", "x", "s", "t"}
                /\ (c \in {"S", "T"}) <=> (~ok /\ j = 3 /\ special)

\* Setuid without owner execute: the owner execute slot is 'S', not '-'.
C5_Witness ==
    /\ Returned("to_string")
    /\ is_setuid(mode) /\ ~is_allowed("User", "Execute", mode)
    /\ ret_str[4] = "S"

(* -------------------------------- C6 ----------------------------------- *)

\* m with bits 9-11 replaced by the three-bit value c.
C6_WithSpecial(m, c) == [m EXCEPT !.lo = @ - ((@ \div 512) % 8) * 512 + c * 512]

\* C6: is_setuid, is_setgid, is_sticky are true iff bit 11 (0o4000), bit 10
\* (0o2000), bit 9 (0o1000) is set; replacing the three special bits by any
\* of the eight combinations changes the predicate to that combination's bit
\* and leaves the file type as it was.
C6_SpecialBits ==
    LET t == TypeFrom(mode) IN
    /\ Returned("is_setuid") =>
        /\ ret_bool <=> Bit(mode, 11)
        /\ \A c \in 0 .. 7 :
            LET m2 == C6_WithSpecial(mode, c)
            IN  /\ is_setuid(m2) <=> (c \div 4) % 2 = 1
                /\ TypeFrom(m2) = t
    /\ Returned("is_setgid") =>
        /\ ret_bool <=> Bit(mode, 10)
        /\ \A c \in 0 .. 7 :
            LET m2 == C6_WithSpecial(mode, c)
            IN  /\ is_setgid(m2) <=> (c \div 2) % 2 = 1
                /\ TypeFrom(m2) = t
    /\ Returned("is_sticky") =>
        /\ ret_bool <=> Bit(mode, 9)
        /\ \A c \in 0 .. 7 :
            LET m2 == C6_WithSpecial(mode, c)
            IN  /\ is_sticky(m2) <=> c % 2 = 1
                /\ TypeFrom(m2) = t

\* A symlink that is setgid but neither setuid nor sticky, all permission
\* bits set.
C6_Witness ==
    /\ Returned("is_setgid")
    /\ ret_bool
    /\ ~is_setuid(mode) /\ ~is_sticky(mode)
    /\ TypeCode(mode) = 10
    /\ mode.lo % 512 = 511

(* -------------------------------- C7 ----------------------------------- *)

\* C7: each type predicate equals the comparison of Type::from(mode) with
\* its variant.
C7_TypePredicates ==
    /\ Returned("is_file")         => (ret_bool <=> TypeFrom(mode) = "File")
    /\ Returned("is_dir")          => (ret_bool <=> TypeFrom(mode) = "Dir")
    /\ Returned("is_symlink")      => (ret_bool <=> TypeFrom(mode) = "Symlink")
    /\ Returned("is_fifo")         => (ret_bool <=> TypeFrom(mode) = "Fifo")
    /\ Returned("is_char_device")  => (ret_bool <=> TypeFrom(mode) = "CharDevice")
    /\ Returned("is_block_device") => (ret_bool <=> TypeFrom(mode) = "BlockDevice")
    /\ Returned("is_socket")       => (ret_bool <=> TypeFrom(mode) = "Socket")

\* is_block_device answers true for a block device.
C7_Witness ==
    /\ Returned("is_block_device")
    /\ ret_bool
    /\ TypeCode(mode) = 6

(* -------------------------------- C8 ----------------------------------- *)

\* C8: to_string(mode) has exactly 10 characters: one type glyph followed by
\* nine permission characters.
C8_TenChars ==
    Returned("to_string") =>
        /\ Len(ret_str) = 10
        /\ ret_str[1] \in {"p", "c", "d", "b", "-", "l", "s", "w", "?"}
        /\ \A n \in 2 .. 10 :
            ret_str[n] \in {"r", "w", "x", "s", "S", "t", "T", "-"}

\* An unrecognised type code with bits 16-31 set.
C8_Witness ==
    /\ Returned("to_string")
    /\ TypeCode(mode) = 15
    /\ mode.hi = 65535
    /\ Len(ret_str) = 10
    /\ ret_str[1] = "?"

(* -------------------------------- C9 ----------------------------------- *)

\* C9: to_string of the mode with bit 0o4000 set and of the mode with it
\* cleared agree at every position but the Owner execute character
\* (position 3), where 'x' becomes 's' and '-' becomes 'S'.
C9_SetuidFrame ==
    Returned("to_string") =>
        LET off == IF is_setuid(mode) THEN to_string(ClearBit(mode, 11)) ELSE ret_str
            on  == IF is_setuid(mode) THEN ret_str ELSE to_string(SetBit(mode, 11))
        IN  /\ \A n \in 1 .. 10 : n # 4 => on[n] = off[n]
            /\ off[4] \in {"x", "-"}
            /\ off[4] = "x" => on[4] = "s"
            /\ off[4] = "-" => on[4] = "S"

\* A setuid, setgid, sticky mode without owner execute.
C9_Witness ==
    /\ Returned("to_string")
    /\ is_setuid(mode) /\ is_setgid(mode) /\ is_sticky(mode)
    /\ ~is_allowed("User", "Execute", mode)
    /\ is_allowed("User", "Read", mode)
    /\ ret_str[4] = "S" /\ ret_str[2] = "r"

(* -------------------------------- C10 ---------------------------------- *)

\* Reading a rendered string back: the type of its first character, whether
\* a permission character shows an allowed access, whether an execute
\* character shows a special bit, and the twelve low bits they spell.
C10_ReadType(c) ==
    CASE c = "p" -> "Fifo"
      [] c = "c" -> "CharDevice"
      [] c = "d" -> "Dir"
      [] c = "b" -> "BlockDevice"
      [] c = "-" -> "File"
      [] c = "l" -> "Symlink"
      [] c = "s" -> "Socket"
      [] c = "w" -> "Whiteout"
      [] c = "?" -> "Unknown"

C10_ReadAllowed(s, i, j) == s[Slot(i, j)] \in {"r", "w", "x", "s", "t"}

C10_ReadSpecial(s, i) == s[Slot(i, 3)] \in {"s", "S", "t", "T"}

C10_B(b) == IF b THEN 1 ELSE 0

C10_ReadLow12(s) ==
      2048 * C10_B(C10_ReadSpecial(s, 1))
    + 1024 * C10_B(C10_ReadSpecial(s, 2))
    + 512 * C10_B(C10_ReadSpecial(s, 3))
    + 256 * C10_B(C10_ReadAllowed(s, 1, 1))
    + 128 * C10_B(C10_ReadAllowed(s, 1, 2))
    + 64 * C10_B(C10_ReadAllowed(s, 1, 3))
    + 32 * C10_B(C10_ReadAllowed(s, 2, 1))
    + 16 * C10_B(C10_ReadAllowed(s, 2, 2))
    + 8 * C10_B(C10_ReadAllowed(s, 2, 3))
    + 4 * C10_B(C10_ReadAllowed(s, 3, 1))
    + 2 * C10_B(C10_ReadAllowed(s, 3, 2))
    + C10_B(C10_ReadAllowed(s, 3, 3))

\* C10: to_string(mode) determines bits 0-11 of mode and Type::from(mode):
\* they are read back from the string alone (the nine is_allowed results,
\* is_setuid, is_setgid, is_sticky, the twelve low bits and the type), so two
\* modes with the same string agree on all of them.  What the string does
\* not determine is bits 16-31 and which unrecognised code gave '?': the
\* mode with bits 16-31 cleared, and an unrecognised mode with type code 0,
\* render the same string.
C10_NoInformationLost ==
    Returned("to_string") =>
        /\ \A i \in 1 .. 3, j \in 1 .. 3 :
            C10_ReadAllowed(ret_str, i, j) <=>
                is_allowed(<<"User", "Group", "Other">>[i],
                           <<"Read", "Write", "Execute">>[j], mode)
        /\ C10_ReadSpecial(ret_str, 1) <=> is_setuid(mode)
        /\ C10_ReadSpecial(ret_str, 2) <=> is_setgid(mode)
        /\ C10_ReadSpecial(ret_str, 3) <=> is_sticky(mode)
        /\ C10_ReadLow12(ret_str) = mode.lo % 4096
        /\ C10_ReadType(ret_str[1]) = TypeFrom(mode)
        /\ to_string([mode EXCEPT !.hi = 0]) = ret_str
        /\ TypeFrom(mode) = "Unknown" =>
               to_string([mode EXCEPT !.lo = @ % 4096]) = ret_str

\* A sticky, setuid mode with neither owner nor other execute, of
\* unrecognised type code 5.
C10_Witness ==
    /\ Returned("to_string")
    /\ TypeCode(mode) = 5
    /\ mode.lo % 4096 = 2048 + 512 + 256 + 16
    /\ ret_str = <<"?", "r", "-", "S", "-", "w", "-", "-", "-", "T">>

====
